---------------------------- MODULE Spec2Model ----------------------------
(***************************************************************************)
(* Model of acnh-backup (src/src/main.rs): the menu loop, backup_directory *)
(* with its filename encoder, restore_directory with its catalog and       *)
(* filename decoder, create_zip_backup and extract_zip_backup.             *)
(*                                                                         *)
(* Strings are sequences of one-character strings, so that formatting,     *)
(* regex capture and parsing are computed and not assumed.  Directory      *)
(* trees are functions from relative paths (sequences of components) to    *)
(* nodes.  Zip entry names are sequences of components and "/" separators. *)
(***************************************************************************)
EXTENDS Naturals, Sequences, FiniteSets, TLC

VARIABLES pc, tz, source_dir, backup_dir, backup_files, backup_path,
          selected_backup, msg

vars == <<pc, tz, source_dir, backup_dir, backup_files, backup_path,
          selected_backup, msg>>

-----------------------------------------------------------------------------
(* Characters and numbers                                                  *)

DigitChars == <<"0", "1", "2", "3", "4", "5", "6", "7", "8", "9">>

IsDigit(c) == \E i \in 1..10 : DigitChars[i] = c

DigitVal(c) == (CHOOSE i \in 1..10 : DigitChars[i] = c) - 1

DigitOf(n) == DigitChars[n + 1]

\* "%m", "%d", "%H", "%M", "%S": two digits, zero padded
Pad2(n) == <<DigitOf((n \div 10) % 10), DigitOf(n % 10)>>

\* "%Y": four digits, zero padded
Pad4(n) == <<DigitOf((n \div 1000) % 10), DigitOf((n \div 100) % 10),
             DigitOf((n \div 10) % 10), DigitOf(n % 10)>>

Num2(s) == 10 * DigitVal(s[1]) + DigitVal(s[2])

Num4(s) == 1000 * DigitVal(s[1]) + 100 * DigitVal(s[2])
           + 10 * DigitVal(s[3]) + DigitVal(s[4])

StartsWith(s, p) == Len(s) >= Len(p) /\ SubSeq(s, 1, Len(p)) = p

EndsWith(s, p) == Len(s) >= Len(p) /\ SubSeq(s, Len(s) - Len(p) + 1, Len(s)) = p

-----------------------------------------------------------------------------
(* Calendar date-times (chrono::NaiveDateTime at one-second resolution)    *)

DateTime(y, mo, d, h, mi, s) == [y |-> y, mo |-> mo, d |-> d, h |-> h, mi |-> mi, s |-> s]

IsLeapYear(y) == (y % 4 = 0 /\ y % 100 # 0) \/ y % 400 = 0

DaysInMonth(y, mo) ==
    IF mo = 2 THEN (IF IsLeapYear(y) THEN 29 ELSE 28)
    ELSE IF mo \in {4, 6, 9, 11} THEN 30 ELSE 31

\* the fixed 16-digit title id that starts every backup filename
FixedId == <<"0", "0", "0", "0", "0", "0", "0", "0",
             "0", "0", "0", "0", "0", "0", "0", "1">>

ZipSuffix == <<".", "z", "i", "p">>

\* chrono format "%Y-%m-%d_%H-%M-%S"
FormatFileStamp(t) ==
    Pad4(t.y) \o <<"-">> \o Pad2(t.mo) \o <<"-">> \o Pad2(t.d) \o <<"_">>
    \o Pad2(t.h) \o <<"-">> \o Pad2(t.mi) \o <<"-">> \o Pad2(t.s)

\* format!("0000000000000001_{}_{}.zip", custom_name, now.format(...))
backup_name(custom_name, now) ==
    FixedId \o <<"_">> \o custom_name \o <<"_">> \o FormatFileStamp(now) \o ZipSuffix

-----------------------------------------------------------------------------
(* The filename decoder of restore_directory                               *)

\* \d{4}-\d{2}-\d{2}
IsDateShape(s) ==
    /\ Len(s) = 10
    /\ \A i \in {1, 2, 3, 4, 6, 7, 9, 10} : IsDigit(s[i])
    /\ s[5] = "-" /\ s[8] = "-"

\* \d{2}-\d{2}-\d{2}
IsTimeShape(s) ==
    /\ Len(s) = 8
    /\ \A i \in {1, 2, 4, 5, 7, 8} : IsDigit(s[i])
    /\ s[3] = "-" /\ s[6] = "-"

\* _(\d{4}-\d{2}-\d{2})_(\d{2}-\d{2}-\d{2})\.zip$ : the part of the regex
\* that follows the label capture, matched against the whole rest
IsStampTail(s) ==
    /\ Len(s) = 24
    /\ s[1] = "_"
    /\ IsDateShape(SubSeq(s, 2, 11))
    /\ s[12] = "_"
    /\ IsTimeShape(SubSeq(s, 13, 20))
    /\ SubSeq(s, 21, 24) = ZipSuffix

\* the lengths k of a non-empty label capture (.+) after "<id>_" for which
\* the rest of the name matches the rest of the regex
LabelSplits(filename) ==
    LET body == SubSeq(filename, Len(FixedId) + 2, Len(filename))
    IN  {k \in 1..Len(body) : IsStampTail(SubSeq(body, k + 1, Len(body)))}

MaxOf(S) == CHOOSE k \in S : \A j \in S : j <= k

NoCaptures == [matched |-> FALSE]

\* re.captures(&filename) for
\* ^0000000000000001_(.+)_(\d{4}-\d{2}-\d{2})_(\d{2}-\d{2}-\d{2})\.zip$
\* (.+) is greedy: the longest label for which the rest matches
ReCaptures(filename) ==
    IF ~StartsWith(filename, FixedId \o <<"_">>) \/ LabelSplits(filename) = {}
    THEN NoCaptures
    ELSE LET body == SubSeq(filename, Len(FixedId) + 2, Len(filename))
             k == MaxOf(LabelSplits(filename))
         IN  [matched |-> TRUE,
              custom_name |-> SubSeq(body, 1, k),
              date |-> SubSeq(body, k + 2, k + 11),
              time |-> SubSeq(body, k + 13, k + 20)]

NoDateTime == [y |-> 0, mo |-> 0, d |-> 0, h |-> 0, mi |-> 0, s |-> 0]

\* NaiveDateTime::parse_from_str(&format!("{} {}", date, time), "%Y-%m-%d %H-%M-%S").ok()
\* NoDateTime stands for None (no calendar date has month 0)
ParseNaive(date, time) ==
    LET y == Num4(SubSeq(date, 1, 4))
        mo == Num2(SubSeq(date, 6, 7))
        d == Num2(SubSeq(date, 9, 10))
        h == Num2(SubSeq(time, 1, 2))
        mi == Num2(SubSeq(time, 4, 5))
        s == Num2(SubSeq(time, 7, 8))
    IN  IF /\ mo \in 1..12
           /\ d \in 1..DaysInMonth(y, mo)
           /\ h \in 0..23
           /\ mi \in 0..59
           /\ s \in 0..60
        THEN DateTime(y, mo, d, h, mi, s)
        ELSE NoDateTime


\* Local.from_local_datetime(&dt): how many instants the local zone gives a
\* wall-clock time.  tz = "utc" has no transitions; tz = "dst" is a zone with
\* daylight saving (the 2024 rules of America/New_York): the hour skipped on
\* 2024-03-10 does not exist, the hour repeated on 2024-11-03 exists twice.
FromLocalDatetime(zone, dt) ==
    IF zone = "dst" /\ dt.y = 2024 /\ dt.mo = 3 /\ dt.d = 10 /\ dt.h = 2 THEN "None"
    ELSE IF zone = "dst" /\ dt.y = 2024 /\ dt.mo = 11 /\ dt.d = 3 /\ dt.h = 1 THEN "Ambiguous"
    ELSE "Single"

\* DateTime::<Local>::default(): the Unix epoch shown in the local zone
DefaultDateTime(zone) ==
    IF zone = "dst" THEN DateTime(1969, 12, 31, 19, 0, 0)
    ELSE DateTime(1970, 1, 1, 0, 0, 0)

\* chrono format "%Y-%m-%d %H:%M:%S"
formatted_date_time(t) ==
    Pad4(t.y) \o <<"-">> \o Pad2(t.mo) \o <<"-">> \o Pad2(t.d) \o <<" ">>
    \o Pad2(t.h) \o <<":">> \o Pad2(t.mi) \o <<":">> \o Pad2(t.s)

\* format!("ACNH {} {}", custom_name, formatted_date_time)
display_name(custom_name, t) ==
    <<"A", "C", "N", "H", " ">> \o custom_name \o <<" ">> \o formatted_date_time(t)

\* LocalResult::unwrap() panics unless the result is Single
UnwrapPanics(zone, dt) == dt # NoDateTime /\ FromLocalDatetime(zone, dt) # "Single"

\* parse_from_str(..).ok().map(|dt| Local.from_local_datetime(&dt).unwrap())
\*     .unwrap_or_default()
naive_datetime(zone, parsed) ==
    IF parsed = NoDateTime THEN DefaultDateTime(zone) ELSE parsed

\* the closure body of filter_map for one .zip file: the (display, filename)
\* pair it pushes, or a panic
DecodeEntry(zone, filename) ==
    LET captures == ReCaptures(filename)
    IN  IF captures.matched
        THEN LET parsed == ParseNaive(captures.date, captures.time)
             IN  IF UnwrapPanics(zone, parsed)
                 THEN [panic |-> TRUE, pair |-> <<filename, filename>>]
                 ELSE [panic |-> FALSE,
                       pair |-> <<display_name(captures.custom_name,
                                               naive_datetime(zone, parsed)),
                                  filename>>]
        ELSE [panic |-> FALSE, pair |-> <<filename, filename>>]

AnyExtension(filename) == TRUE

\* entry.path().extension().unwrap_or_default() == "zip": the name ends in
\* ".zip" and the dot is not the first character of the name
HasZipExtension(filename) == EndsWith(filename, ZipSuffix) /\ Len(filename) > Len(ZipSuffix)

-----------------------------------------------------------------------------
(* Directory trees and zip archives                                        *)

FileNode(data) == [kind |-> "file", data |-> data]

DirNode == [kind |-> "dir", data |-> ""]

EmptyTree == [p \in {} |-> DirNode]

Dir(tree) == [exists |-> TRUE, tree |-> tree]

MissingDir == [exists |-> FALSE, tree |-> EmptyTree]

\* the order of names in which a directory is enumerated, when ascending
NameOrder == <<"a.txt", "b.txt", "sub">>

NameRank(n) == CHOOSE i \in 1..Len(NameOrder) : NameOrder[i] = n

Children(tree, dir) ==
    {p \in DOMAIN tree : Len(p) = Len(dir) + 1 /\ SubSeq(p, 1, Len(dir)) = dir}

RECURSIVE Enumerate(_, _)
\* the paths of S in one enumeration order: ascending by last component, or
\* descending when rev (fs::read_dir promises no order)
Enumerate(S, rev) ==
    IF S = {} THEN <<>>
    ELSE LET first == CHOOSE p \in S : \A q \in S :
                        IF rev THEN NameRank(q[Len(q)]) <= NameRank(p[Len(p)])
                               ELSE NameRank(p[Len(p)]) <= NameRank(q[Len(q)])
         IN  <<first>> \o Enumerate(S \ {first}, rev)

RECURSIVE JoinSlash(_)
\* path_as_string of a relative path: the components joined by "/"
JoinSlash(p) ==
    IF Len(p) = 0 THEN <<>>
    ELSE IF Len(p) = 1 THEN p
    ELSE <<p[1], "/">> \o JoinSlash(Tail(p))

\* start_file(name) + write_all(bytes) for a file, add_directory(name) for a
\* directory (stored with a trailing "/")
EntryOf(tree, p) ==
    IF tree[p].kind = "file"
    THEN [name |-> JoinSlash(p), data |-> tree[p].data]
    ELSE [name |-> JoinSlash(p) \o <<"/">>, data |-> ""]

RECURSIVE Walk(_, _, _)
\* zip.create_from_directory(source_dir): paths_queue is a stack of
\* directories; each popped directory is enumerated, every file and directory
\* in it becomes an entry, and directories are pushed
Walk(tree, paths_queue, rev) ==
    IF paths_queue = <<>> THEN <<>>
    ELSE LET next == paths_queue[Len(paths_queue)]
             listing == Enumerate(Children(tree, next), rev)
             isDir(p) == tree[p].kind = "dir"
         IN  [i \in 1..Len(listing) |-> EntryOf(tree, listing[i])]
             \o Walk(tree,
                     SubSeq(paths_queue, 1, Len(paths_queue) - 1)
                         \o SelectSeq(listing, isDir),
                     rev)

\* the components of an entry name: target_dir.join(file.name())
PathOf(name) == SelectSeq(name, LAMBDA c : c # "/")

Prefixes(p) == {SubSeq(p, 1, k) : k \in 1..Len(p)}

\* fs::create_dir_all(p) fails when a component of p is an existing file
CanCreateDirAll(tree, p) ==
    \A q \in Prefixes(p) : q \in DOMAIN tree => tree[q].kind = "dir"

\* fs::create_dir_all(p): p and every missing ancestor become directories
CreateDirAll(tree, p) ==
    [q \in DOMAIN tree \cup Prefixes(p) |-> IF q \in DOMAIN tree THEN tree[q] ELSE DirNode]

Parent(p) == SubSeq(p, 1, Len(p) - 1)

\* file.name().ends_with('/')
IsDirName(name) == name # <<>> /\ name[Len(name)] = "/"

\* fs::create_dir_all(&outpath)? for a directory entry
CreateDirEntry(st, entry) ==
    LET outpath == PathOf(entry.name)
    IN  IF CanCreateDirAll(st.tree, outpath)
        THEN [ok |-> TRUE, tree |-> CreateDirAll(st.tree, outpath)]
        ELSE [ok |-> FALSE, tree |-> st.tree]

\* for a file entry: create the parent chain when missing, then
\* fs::File::create(&outpath)? and io::copy
WriteFileEntry(st, entry) ==
    LET outpath == PathOf(entry.name)
    IN  IF ~CanCreateDirAll(st.tree, Parent(outpath))
        THEN [ok |-> FALSE, tree |-> st.tree]
        ELSE LET made == CreateDirAll(st.tree, Parent(outpath))
             IN  IF outpath \in DOMAIN made /\ made[outpath].kind = "dir"
                 THEN [ok |-> FALSE, tree |-> made]
                 ELSE [ok |-> TRUE,
                       tree |-> [q \in DOMAIN made \cup {outpath} |->
                                    IF q = outpath THEN FileNode(entry.data)
                                    ELSE made[q]]]

ExtractEntrySkipDirs(st, entry) ==
    IF ~st.ok \/ IsDirName(entry.name) THEN st ELSE WriteFileEntry(st, entry)

\* one iteration of the loop of extract_zip_backup (an error returns from
\* the loop: later entries are not processed)
ExtractEntry(st, entry) ==
    IF ~st.ok THEN st
    ELSE IF IsDirName(entry.name) THEN CreateDirEntry(st, entry)
    ELSE WriteFileEntry(st, entry)

RECURSIVE ExtractFrom(_, _, _)
ExtractFrom(st, entries, i) ==
    IF i > Len(entries) THEN st
    ELSE ExtractFrom(ExtractEntry(st, entries[i]), entries, i + 1)

\* extract_zip_backup(backup_path, target_dir) on an archive that opens:
\* for i in 0..zip.len(), in stored order
extract_zip_backup(entries, tree) ==
    ExtractFrom([ok |-> TRUE, tree |-> tree], entries, 1)

-----------------------------------------------------------------------------
(* Bounds and the inputs the environment supplies                          *)

\* archives backup_directory may have written into the backup directory
MaxBackups == 1

\* names the user types at "Enter a name for the backup": a plain one, and one
\* with underscores and a substring shaped like the date and time fields
Labels ==
    { <<"s">>,
      <<"1", "_", "2", "0", "2", "4", "-", "0", "5", "-", "0", "1", "_",
        "1", "2", "-", "3", "0", "-", "0", "0">> }

\* wall-clock times Local::now() returns; the second lies in the hour that a
\* zone with daylight saving repeats
Clock == { DateTime(2024, 5, 1, 12, 30, 0), DateTime(2024, 11, 3, 1, 30, 0) }

\* save-data trees the game leaves in the save directory
Trees ==
    { EmptyTree,
      (<<"a.txt">> :> FileNode("y")) @@ (<<"sub">> :> DirNode),
      (<<"a.txt">> :> FileNode("x")) @@ (<<"sub">> :> DirNode)
          @@ (<<"sub", "b.txt">> :> FileNode("y")) }

RandomZip == <<"r", "a", "n", "d", "o", "m">> \o ZipSuffix

NotesTxt == <<"n", "o", "t", "e", "s", ".", "t", "x", "t">>

OldZipDir == <<"o", "l", "d">> \o ZipSuffix

\* "<fixedId>_2024-05-01_12-30-00.zip": the name form without a label
NoLabelZip ==
    FixedId \o <<"_">> \o FormatFileStamp(DateTime(2024, 5, 1, 12, 30, 0)) \o ZipSuffix

\* "<fixedId>_s_2024-13-01_25-00-00.zip": month 13, hour 25
BadDateZip ==
    FixedId \o <<"_", "s", "_">>
    \o <<"2", "0", "2", "4", "-", "1", "3", "-", "0", "1", "_",
         "2", "5", "-", "0", "0", "-", "0", "0">> \o ZipSuffix

StrayFile == [is_file |-> TRUE, zip |-> FALSE, entries |-> <<>>,
              written |-> FALSE, complete |-> FALSE, snapshot |-> EmptyTree]

StrayDir == [StrayFile EXCEPT !.is_file = FALSE]

\* what the backup directory holds before the program first runs: nothing, or
\* files and directories the program did not write
StraySets ==
    { EmptyTree,
      (RandomZip :> StrayFile) @@ (NotesTxt :> StrayFile) @@ (OldZipDir :> StrayDir)
          @@ (NoLabelZip :> StrayFile) @@ (BadDateZip :> StrayFile) }

GoBack == <<"G", "o", " ", "b", "a", "c", "k">>

NoSelection == 0

NoPath == <<>>

-----------------------------------------------------------------------------
(* The program                                                             *)

Init ==
    /\ pc = "menu"
    /\ tz \in {"utc", "dst"}
    /\ source_dir \in {MissingDir} \cup {Dir(t) : t \in Trees}
    /\ backup_dir \in {MissingDir} \cup {Dir(f) : f \in StraySets}
    /\ backup_files = <<>>
    /\ backup_path = NoPath
    /\ selected_backup = NoSelection
    /\ msg = "none"

\* main, selection 0: backup_directory up to the name prompt
\* (fs::create_dir_all(&target_dir) when the backup directory is missing)
MenuBackup ==
    /\ pc = "menu"
    /\ backup_dir' = IF backup_dir.exists THEN backup_dir ELSE Dir(EmptyTree)
    /\ pc' = "label"
    /\ msg' = "none"
    /\ selected_backup' = NoSelection
    /\ UNCHANGED <<tz, source_dir, backup_files, backup_path>>

\* create_zip_backup(source_dir, backup_path): File::create makes the file,
\* then the walk adds entries until it ends or a read fails after fail_at
\* entries; a missing source directory fails before the first entry.  The
\* writer is closed on both paths (finish, or drop), so the file opens as an
\* archive of what was added.  written, complete and snapshot record what
\* the file was made from.
create_zip_backup(source, rev, fail_at) ==
    LET all == IF source.exists THEN Walk(source.tree, <<NoPath>>, rev) ELSE <<>>
        done == source.exists /\ fail_at >= Len(all)
        added == IF fail_at >= Len(all) THEN all ELSE SubSeq(all, 1, fail_at)
    IN  [ok |-> done,
         file |-> [is_file |-> TRUE, zip |-> TRUE,
                   entries |-> added,
                   written |-> TRUE, complete |-> done,
                   snapshot |-> IF done THEN source.tree ELSE EmptyTree]]

WrittenNames == {n \in DOMAIN backup_dir.tree : backup_dir.tree[n].written}

\* backup_directory from the name prompt on
backup_directory(custom_name, now, rev, fail_at) ==
    LET name == backup_name(custom_name, now)
        res == create_zip_backup(source_dir, rev, fail_at)
    IN  /\ pc = "label"
        /\ name \in WrittenNames \/ Cardinality(WrittenNames) < MaxBackups
        /\ backup_path' = name
        /\ backup_dir' = Dir((name :> res.file) @@ backup_dir.tree)
        /\ IF res.ok
           THEN pc' = "confirm" /\ msg' = "Backup complete."
           ELSE pc' = "panicked" /\ msg' = "Failed to create backup"
        /\ UNCHANGED <<tz, source_dir, backup_files, selected_backup>>

RECURSIVE SeqOfSet(_)
SeqOfSet(S) ==
    IF S = {} THEN <<>>
    ELSE LET x == CHOOSE y \in S : TRUE IN <<x>> \o SeqOfSet(S \ {x})

Reverse(s) == [i \in 1..Len(s) |-> s[Len(s) + 1 - i]]

\* fs::read_dir(&backup_dir): the names in one of two opposite orders
ReadBackupDir(rev) ==
    LET one == SeqOfSet(DOMAIN backup_dir.tree)
    IN  IF rev THEN Reverse(one) ELSE one

\* entry.path().is_file() && extension == "zip"
Listed(n) == backup_dir.tree[n].is_file /\ HasZipExtension(n)

PushGoBack(pairs) == pairs \o <<<<GoBack, GoBack>>>>

\* backup_files.insert(0, ("Go back", "Go back"))
InsertGoBack(pairs) == <<<<GoBack, GoBack>>>> \o pairs

\* the catalog restore_directory builds from one enumeration
BuildCatalog(listing) ==
    LET kept == SelectSeq(listing, Listed)
    IN  InsertGoBack([i \in 1..Len(kept) |-> DecodeEntry(tz, kept[i]).pair])

\* main, selection 1: restore_directory up to the selection prompt
MenuRestore(rev) ==
    /\ pc = "menu"
    /\ IF ~backup_dir.exists
       THEN /\ msg' = "Directory does not exist"
            /\ pc' = "menu"
            /\ backup_files' = <<>>
       ELSE IF \E n \in DOMAIN backup_dir.tree : Listed(n) /\ DecodeEntry(tz, n).panic
       THEN /\ msg' = "called unwrap on a local time that is not single"
            /\ pc' = "panicked"
            /\ backup_files' = <<>>
       ELSE IF BuildCatalog(ReadBackupDir(rev)) = <<>>
       THEN \* if backup_files.is_empty()
            /\ msg' = "No backups found in the backup directory."
            /\ pc' = "menu"
            /\ backup_files' = <<>>
       ELSE /\ msg' = "none"
            /\ pc' = "select"
            /\ backup_files' = BuildCatalog(ReadBackupDir(rev))
    /\ selected_backup' = NoSelection
    /\ UNCHANGED <<tz, source_dir, backup_dir, backup_path>>

NeverGoBack(pair) == FALSE

\* &backup_files[selected_backup].1 == "Go back"
IsGoBack(pair) == pair[2] = GoBack

KeepTarget(tree) == tree

\* fs::remove_dir_all(&target_dir) then fs::create_dir_all(&target_dir)
RecreateTarget(tree) == EmptyTree

\* restore_directory from the selection prompt on; selected = NoSelection is
\* a cancelled prompt (interact_opt() returned None), otherwise selected is
\* the 1-based position of the chosen line
restore_directory(selected) ==
    /\ pc = "select"
    /\ selected_backup' = selected
    /\ IF selected = NoSelection \/ IsGoBack(backup_files[selected])
       THEN /\ pc' = "menu"
            /\ msg' = "none"
            /\ UNCHANGED <<source_dir, backup_path>>
       ELSE LET original_filename == backup_files[selected][2]
                opens == /\ original_filename \in DOMAIN backup_dir.tree
                         /\ backup_dir.tree[original_filename].zip
                emptied == RecreateTarget(source_dir.tree)
                res == IF opens
                       THEN extract_zip_backup(
                                backup_dir.tree[original_filename].entries, emptied)
                       ELSE [ok |-> FALSE, tree |-> emptied]
            IN  /\ backup_path' = original_filename
                /\ IF ~source_dir.exists
                   THEN \* fs::remove_dir_all(&target_dir) fails
                        /\ source_dir' = source_dir
                        /\ pc' = "panicked"
                        /\ msg' = "Failed to remove target directory"
                   ELSE /\ source_dir' = Dir(res.tree)
                        /\ IF res.ok
                           THEN pc' = "confirm" /\ msg' = "Restore complete."
                           ELSE pc' = "panicked" /\ msg' = "Failed to restore backup"
    /\ backup_files' = <<>>
    /\ UNCHANGED <<tz, backup_dir>>

\* "Press Enter to continue", then back to the loop of main
Continue ==
    /\ pc = "confirm"
    /\ pc' = "menu"
    /\ msg' = "none"
    /\ backup_path' = NoPath
    /\ selected_backup' = NoSelection
    /\ UNCHANGED <<tz, source_dir, backup_dir, backup_files>>

\* main, key 'q', selection 2 or a cancelled menu: process::exit(0)
MenuExit ==
    /\ pc = "menu"
    /\ pc' = "exited"
    /\ msg' = "Exiting..."
    /\ selected_backup' = NoSelection
    /\ UNCHANGED <<tz, source_dir, backup_dir, backup_files, backup_path>>

\* the user starts the program again: the directories are as the last run left them
Relaunch ==
    /\ pc \in {"panicked", "exited"}
    /\ pc' = "menu"
    /\ msg' = "none"
    /\ backup_files' = <<>>
    /\ backup_path' = NoPath
    /\ selected_backup' = NoSelection
    /\ UNCHANGED <<tz, source_dir, backup_dir>>

\* the game saves while the program waits at its menu
GameSaves(t) ==
    /\ pc = "menu"
    /\ source_dir.exists
    /\ source_dir.tree # t
    /\ source_dir' = Dir(t)
    /\ UNCHANGED <<pc, tz, backup_dir, backup_files, backup_path, selected_backup, msg>>

Next ==
    \/ MenuBackup
    \/ \E custom_name \in Labels, now \in Clock, rev \in BOOLEAN,
          fail_at \in 0..Cardinality(DOMAIN source_dir.tree) :
          backup_directory(custom_name, now, rev, fail_at)
    \/ \E rev \in BOOLEAN : MenuRestore(rev)
    \/ \E selected \in 0..Len(backup_files) : restore_directory(selected)
    \/ Continue
    \/ MenuExit
    \/ Relaunch
    \/ \E t \in Trees : GameSaves(t)

Spec == Init /\ [][Next]_vars

-----------------------------------------------------------------------------
(* Properties                                                              *)

Restored == pc = "confirm" /\ msg = "Restore complete."

RestoredEntries == backup_dir.tree[backup_path].entries

EntryKind(entry) == IF entry.name[Len(entry.name)] = "/" THEN "dir" ELSE "file"

\* C1: when a restore has completed, the target directory holds exactly the
\* entries of the selected archive: every path in it is an entry of the
\* archive with the same kind and contents, and every entry of the archive
\* is in it; nothing that was there before survives otherwise.
C1_RestoreExact ==
    Restored =>
        /\ source_dir.exists
        /\ \A p \in DOMAIN source_dir.tree :
              \E i \in 1..Len(RestoredEntries) :
                 /\ PathOf(RestoredEntries[i].name) = p
                 /\ EntryKind(RestoredEntries[i]) = source_dir.tree[p].kind
                 /\ RestoredEntries[i].data = source_dir.tree[p].data
        /\ \A i \in 1..Len(RestoredEntries) :
              PathOf(RestoredEntries[i].name) \in DOMAIN source_dir.tree

\* a restore of an archive with a file and a directory has completed
C1_Witness ==
    /\ Restored
    /\ Len(RestoredEntries) = 2
    /\ <<"sub", "b.txt">> \notin DOMAIN source_dir.tree

\* C2: restoring an archive that a backup wrote completely yields the tree
\* the backup was taken from: the same paths, kinds and file contents.
C2_RoundTrip ==
    (Restored /\ backup_dir.tree[backup_path].complete)
        => source_dir.tree = backup_dir.tree[backup_path].snapshot

\* a completely written archive of a tree with a file and an empty
\* subdirectory has been restored
C2_Witness ==
    /\ Restored
    /\ backup_dir.tree[backup_path].complete
    /\ DOMAIN backup_dir.tree[backup_path].snapshot = {<<"a.txt">>, <<"sub">>}

\* C3: every filename under which backup_directory has completed a backup
\* from a label and a time decodes to the display of that label and that time.
C3_CodecRoundTrip ==
    \A custom_name \in Labels, now \in Clock :
        LET name == backup_name(custom_name, now)
        IN  (name \in DOMAIN backup_dir.tree /\ backup_dir.tree[name].complete)
                => DecodeEntry(tz, name)
                     = [panic |-> FALSE, pair |-> <<display_name(custom_name, now), name>>]

\* C4: every file of the backup directory that the catalog lists and that a
\* backup wrote is a complete snapshot of the tree it was written from.
C4_NoPartialArchive ==
    \A n \in DOMAIN backup_dir.tree :
        (Listed(n) /\ backup_dir.tree[n].written)
            => /\ backup_dir.tree[n].complete
               /\ extract_zip_backup(backup_dir.tree[n].entries, EmptyTree).tree
                    = backup_dir.tree[n].snapshot

\* C5: a restore that finds no backup directory, or whose selection is
\* cancelled or is the "Go back" line, returns to the menu and leaves the
\* target directory and the backup directory as they were.
C5_NoMutationWithoutArchive ==
    [][( \/ /\ pc = "select"
            /\ pc' # "select"
            /\ \/ selected_backup' = NoSelection
               \/ backup_files[selected_backup'][1] = GoBack
         \/ /\ pc = "menu"
            /\ msg # "Directory does not exist"
            /\ msg' = "Directory does not exist" )
        => (source_dir' = source_dir /\ backup_dir' = backup_dir /\ pc' = "menu")]_vars

\* the "Go back" line was selected while the target directory held files
C5_Witness ==
    /\ pc = "menu"
    /\ selected_backup = 1
    /\ source_dir.exists
    /\ source_dir.tree # EmptyTree

C6_WitnessEmpty == pc = "select" /\ Len(backup_files) = 1

\* C7: a listed name that matches the filename grammar but whose date and
\* time fields are no calendar date-time is displayed as the raw filename.
C7_ParseFailureOpaque ==
    pc = "select" =>
        \A i \in 2..Len(backup_files) :
            LET captures == ReCaptures(backup_files[i][2])
            IN  (captures.matched /\ ParseNaive(captures.date, captures.time) = NoDateTime)
                    => backup_files[i][1] = backup_files[i][2]

\* "<fixedId>_<YYYY-MM-DD>_<HH-MM-SS>.zip"
IsNoLabelName(filename) ==
    /\ StartsWith(filename, FixedId)
    /\ IsStampTail(SubSeq(filename, Len(FixedId) + 1, Len(filename)))

\* C8: a listed name of the form without a label, with a valid date and
\* time, is displayed decoded and not as the raw filename.
C8_NoLabelDecoded ==
    pc = "select" =>
        \A i \in 2..Len(backup_files) :
            LET filename == backup_files[i][2]
            IN  (/\ IsNoLabelName(filename)
                 /\ ParseNaive(SubSeq(filename, Len(FixedId) + 2, Len(FixedId) + 11),
                               SubSeq(filename, Len(FixedId) + 13, Len(FixedId) + 20))
                      # NoDateTime)
                    => backup_files[i][1] # filename

CatalogLines(filename) == {i \in 1..Len(backup_files) : backup_files[i][2] = filename}

\* C9: in the catalog offered for selection, every file of the backup
\* directory named *.zip that matches neither filename grammar has exactly
\* one line, displayed as its raw filename, and decoding it does not panic;
\* names without the .zip extension and directories have no line.
C9_OpaqueFallback ==
    pc = "select" =>
        \A n \in DOMAIN backup_dir.tree :
            /\ (/\ backup_dir.tree[n].is_file
                /\ EndsWith(n, ZipSuffix) /\ Len(n) > Len(ZipSuffix)
                /\ ~ReCaptures(n).matched
                /\ ~IsNoLabelName(n))
                   => /\ Cardinality(CatalogLines(n)) = 1
                      /\ \A i \in CatalogLines(n) : backup_files[i] = <<n, n>>
                      /\ ~DecodeEntry(tz, n).panic
            /\ (~backup_dir.tree[n].is_file \/ ~EndsWith(n, ZipSuffix))
                   => CatalogLines(n) = {}

\* a catalog is offered for a backup directory that holds random.zip,
\* notes.txt and a directory named old.zip
C9_Witness ==
    /\ pc = "select"
    /\ {RandomZip, NotesTxt, OldZipDir} \subseteq DOMAIN backup_dir.tree
    /\ CatalogLines(RandomZip) # {}

\* C10: after a backup or restore attempt has failed, control is back at
\* the menu of main.
C10_FailureReturnsToMenu ==
    msg \in {"Failed to create backup", "Failed to remove target directory",
             "Failed to restore backup"}
        => pc = "menu"

=============================================================================
